---- MODULE Spec2Model ----
(***************************************************************************)
(* A model of qualname.py: the AST visitor that records the lexical        *)
(* qualified name of every class and function definition of a source file, *)
(* the two process-wide caches (_cache, _file_cache), the fallback to the  *)
(* unqualified name, the pre-assignment pass over classes reachable from   *)
(* the module, and the method-vote that guesses between local classes of   *)
(* the same short name.                                                    *)
(*                                                                         *)
(* Python strings are sequences of one-character strings, so that join,    *)
(* split, endswith, slicing and the substring test are computed as Python  *)
(* computes them.  A Python object is a pair <<line, gen>>: the line of    *)
(* the definition that created it and the number of the call (0 for the    *)
(* module body) whose execution created it.                                *)
(***************************************************************************)
EXTENDS Integers, Sequences, FiniteSets, TLC

VARIABLES
    source,      \* the source file: one definition per line
    srcfile,     \* what inspect.getsourcefile finds for the module
    hashSeed,    \* the iteration order of sets and dicts of strings
    loaded,      \* the last line of the module body executed so far
    gens,        \* number of function calls executed so far
    name,        \* __name__ of every live object
    dict,        \* __dict__ of every live class (insertion-ordered pairs)
    module,      \* the module's global names (insertion-ordered pairs)
    qattr,       \* the __qualname__ attribute of the objects that have one
    cache,       \* _cache, the entries keyed by an object
    cacheCode,   \* _cache, the entries keyed by a code object (its line)
    file_cache,  \* _file_cache: <<>> or <<visitor>> for the one file
    steps        \* number of steps the callers have taken on the objects

vars == <<source, srcfile, hashSeed, loaded, gens, name, dict, module, qattr,
          cache, cacheCode, file_cache, steps>>

-----------------------------------------------------------------------------
(* Bounds *)

MaxSteps == 3

-----------------------------------------------------------------------------
(* Python strings *)

LOCALS == <<"<", "l", "o", "c", "a", "l", "s", ">">>
LambdaName == <<"<", "l", "a", "m", "b", "d", "a", ">">>
DotLocalsDot == <<".">> \o LOCALS \o <<".">>

RECURSIVE Join(_)
\* ".".join(stack)
Join(stack) ==
    IF Len(stack) = 0 THEN <<>>
    ELSE IF Len(stack) = 1 THEN stack[1]
    ELSE stack[1] \o <<".">> \o Join(Tail(stack))

RECURSIVE SplitFrom(_, _, _)
SplitFrom(s, i, cur) ==
    IF i > Len(s) THEN <<cur>>
    ELSE IF s[i] = "." THEN <<cur>> \o SplitFrom(s, i + 1, <<>>)
    ELSE SplitFrom(s, i + 1, Append(cur, s[i]))

\* s.split('.')
Split(s) == SplitFrom(s, 1, <<>>)

\* s.endswith(t)
EndsWith(s, t) ==
    /\ Len(t) <= Len(s)
    /\ SubSeq(s, Len(s) - Len(t) + 1, Len(s)) = t

\* t in s
Contains(s, t) ==
    \E i \in 1..(Len(s) - Len(t) + 1) : SubSeq(s, i, i + Len(t) - 1) = t

\* s[:-n] for n >= 1
DropLast(s, n) == IF n >= Len(s) THEN <<>> ELSE SubSeq(s, 1, Len(s) - n)

-----------------------------------------------------------------------------
(* Source files.  Line l holds one statement: a class definition, a        *)
(* function definition, or the assignment of a lambda to a name; parent is *)
(* the line of the enclosing definition (0: module level) and base the     *)
(* line of the class named as base class (0: none).                        *)

Def(k, n, p, b) == [kind |-> k, name |-> n, parent |-> p, base |-> b]

\* class C: def f; class D: def h: class C; def i: def j   /  class D
\* (the PEP 3155 example of the tests with its second D, and a local C)
FilePep ==
    << Def("class", <<"C">>, 0, 0),
       Def("def",   <<"f">>, 1, 0),
       Def("class", <<"D">>, 1, 0),
       Def("def",   <<"h">>, 3, 0),
       Def("class", <<"C">>, 4, 0),
       Def("def",   <<"i">>, 4, 0),
       Def("def",   <<"j">>, 6, 0),
       Def("class", <<"D">>, 0, 0) >>

\* def m: class X: class D: def a, def b   /  class Y: class D(X.D): def g
\* (class_maker2 of the tests)
FileMaker ==
    << Def("def",   <<"m">>, 0, 0),
       Def("class", <<"X">>, 1, 0),
       Def("class", <<"D">>, 2, 0),
       Def("def",   <<"a">>, 3, 0),
       Def("def",   <<"b">>, 3, 0),
       Def("class", <<"Y">>, 1, 0),
       Def("class", <<"D">>, 6, 3),
       Def("def",   <<"g">>, 7, 0) >>

\* def w: class B  /  class B  /  def k: class B: h = lambda: ...
\* (a class at module level and local classes of the same short name, as
\* class_maker1 and class_maker3 of the tests have them)
FileSame ==
    << Def("def",    <<"w">>, 0, 0),
       Def("class",  <<"B">>, 1, 0),
       Def("class",  <<"B">>, 0, 0),
       Def("def",    <<"k">>, 0, 0),
       Def("class",  <<"B">>, 4, 0),
       Def("lambda", <<"h">>, 5, 0) >>

Files == {FilePep, FileMaker, FileSame}

Lines(src) == 1..Len(src)

\* the lines directly inside definition n, in source order
ChildSet(src, n) == {l \in Lines(src) : src[l].parent = n}

\* the first line after k that lies directly inside n, or 0
NextChild(src, n, k) ==
    IF \E l \in ChildSet(src, n) : l > k
    THEN CHOOSE l \in ChildSet(src, n) :
            l > k /\ \A l2 \in ChildSet(src, n) : l2 > k => l <= l2
    ELSE 0

-----------------------------------------------------------------------------
(* class _Visitor *)

\* _Visitor.__init__
NewVisitor ==
    [stack |-> <<>>,
     function_qualnames |-> <<>>,
     class_qualnames |-> <<>>]

\* d[k] of a defaultdict(set), without the insertion
Lookup(d, k) == IF k \in DOMAIN d THEN d[k] ELSE {}

\* d[k] = v
Store(d, k, v) == [x \in DOMAIN d \cup {k} |-> IF x = k THEN v ELSE d[x]]

current_qualname(v) == Join(v.stack)

\* stack.pop()
Pop(v) == [v EXCEPT !.stack = SubSeq(v.stack, 1, Len(v.stack) - 1)]

RECURSIVE generic_visit(_, _, _, _)
RECURSIVE visit(_, _, _)

\* visit_FunctionDef without the '<locals>' segment
visit_FunctionDef_NoLocals(v, src, n) ==
    LET v1 == [v EXCEPT !.stack = Append(v.stack, src[n].name)]
        v2 == [v1 EXCEPT !.function_qualnames =
                  Store(v1.function_qualnames, n, current_qualname(v1))]
        v4 == generic_visit(v2, src, n, 0)
    IN  Pop(v4)

visit_FunctionDef(v, src, n) ==
    LET v1 == [v EXCEPT !.stack = Append(v.stack, src[n].name)]
        v2 == [v1 EXCEPT !.function_qualnames =
                  Store(v1.function_qualnames, n, current_qualname(v1))]
        v3 == [v2 EXCEPT !.stack = Append(v2.stack, LOCALS)]
        v4 == generic_visit(v3, src, n, 0)
    IN  Pop(Pop(v4))

visit_ClassDef(v, src, n) ==
    LET v1 == [v EXCEPT !.stack = Append(v.stack, src[n].name)]
        v2 == [v1 EXCEPT !.class_qualnames =
                  Store(v1.class_qualnames, src[n].name,
                        Lookup(v1.class_qualnames, src[n].name)
                            \cup {current_qualname(v1)})]
        v3 == generic_visit(v2, src, n, 0)
    IN  Pop(v3)

\* NodeVisitor.visit: dispatch on the node type
visit(v, src, n) ==
    IF src[n].kind = "def" THEN visit_FunctionDef(v, src, n)
    ELSE IF src[n].kind = "class" THEN visit_ClassDef(v, src, n)
    ELSE generic_visit(v, src, n, 0)

\* NodeVisitor.generic_visit: visit the children after line k, in order
generic_visit(v, src, n, k) ==
    LET c == NextChild(src, n, k)
    IN  IF c = 0 THEN v
        ELSE generic_visit(visit(v, src, c), src, n, c)

\* visitor.visit(ast.parse(source))
VisitModule(src) == generic_visit(NewVisitor, src, 0, 0)

-----------------------------------------------------------------------------
(* The Python objects of the running program *)

IntObj    == <<-1, 0>>     \* the builtin class int
LenObj    == <<-2, 0>>     \* the builtin function len
PlainObj  == <<-3, 0>>     \* an object that is neither a class nor a routine
ModuleObj == <<-8, 0>>     \* the module of the source file
NoneObj   == <<-9, 0>>     \* None
TypeObj(k) == <<0, k>>     \* the k-th class made by type(name, (object,), {})

IsDefined(o) == o[1] >= 1

\* isinstance(obj, (types.FunctionType, types.MethodType))
IsFunction(o) == IsDefined(o) /\ source[o[1]].kind \in {"def", "lambda"}

\* inspect.isclass(obj)
IsClass(o) ==
    \/ IsDefined(o) /\ source[o[1]].kind = "class"
    \/ o[1] = 0
    \/ o = IntObj

\* inspect.isroutine(obj)
IsRoutine(o) == IsFunction(o) \/ o = LenObj

\* obj.__code__: a function's code object is identified by the line of its
\* definition; every instance of one definition shares it
CodeOf(o) == o[1]

\* d[attr] = o on an insertion-ordered dict
Bind(d, attr, o) ==
    IF \E i \in 1..Len(d) : d[i][1] = attr
    THEN [i \in 1..Len(d) |-> IF d[i][1] = attr THEN <<attr, o>> ELSE d[i]]
    ELSE Append(d, <<attr, o>>)

\* d.get(attr)
Get(d, attr) ==
    IF \E i \in 1..Len(d) : d[i][1] = attr
    THEN (CHOOSE p \in {d[i] : i \in 1..Len(d)} : p[1] = attr)[2]
    ELSE NoneObj

RECURSIVE ExecBody(_, _, _, _, _)

\* executing the statement at line c during call g: the definition creates
\* an object, a class body runs at once, and the name is bound in the
\* enclosing namespace (the locals of a function are not attributes)
ExecStmt(W, src, c, g) ==
    LET o  == <<c, g>>
        n  == src[c].parent
        W1 == [W EXCEPT !.name = Store(W.name, o,
                  IF src[c].kind = "lambda" THEN LambdaName ELSE src[c].name)]
        W2 == IF src[c].kind = "class"
              THEN ExecBody([W1 EXCEPT !.dict = Store(W1.dict, o, <<>>)],
                            src, c, g, 0)
              ELSE W1
    IN  IF n = 0
        THEN [W2 EXCEPT !.module = Bind(W2.module, src[c].name, o)]
        ELSE IF src[n].kind = "class"
        THEN [W2 EXCEPT !.dict = Store(W2.dict, <<n, g>>,
                                   Bind(W2.dict[<<n, g>>], src[c].name, o))]
        ELSE W2

\* executing the statements directly inside n after line k
ExecBody(W, src, n, g, k) ==
    LET c == NextChild(src, n, k)
    IN  IF c = 0 THEN W
        ELSE ExecBody(ExecStmt(W, src, c, g), src, n, g, c)

World == [name |-> name, dict |-> dict, module |-> module]

\* the first base class of a class object
BaseOf(o) ==
    IF IsDefined(o) /\ source[o[1]].base # 0
    THEN <<source[o[1]].base, o[2]>>
    ELSE NoneObj

RECURSIVE ClassAttr(_, _)
\* attribute lookup on a class: its own __dict__, then its base classes
ClassAttr(c, attr) ==
    IF c \notin DOMAIN dict THEN NoneObj
    ELSE IF Get(dict[c], attr) # NoneObj THEN Get(dict[c], attr)
    ELSE ClassAttr(BaseOf(c), attr)

\* getattr(val, attr, None)
GetAttr(val, attr) ==
    IF val = ModuleObj THEN Get(module, attr)
    ELSE ClassAttr(val, attr)

\* inspect.getmodule(val) == module
InModule(val) == val[1] >= 0

-----------------------------------------------------------------------------
(* Iteration order of sets and dicts keyed by strings.  It depends on the   *)
(* string hashes; the model has two orders, one the reverse of the other.  *)

Alphabet == << ".", "<", ">", "B", "C", "D", "N", "X", "Y", "a", "b", "c",
               "d", "e", "f", "g", "h", "i", "j", "k", "l", "m", "n", "o",
               "s", "t", "w", "z" >>

Ord(c) == CHOOSE i \in 1..Len(Alphabet) : Alphabet[i] = c

RECURSIVE Less(_, _)
Less(s, t) ==
    IF Len(t) = 0 THEN FALSE
    ELSE IF Len(s) = 0 THEN TRUE
    ELSE IF s[1] = t[1] THEN Less(Tail(s), Tail(t))
    ELSE Ord(s[1]) < Ord(t[1])

Before(s, t) == IF hashSeed = 0 THEN Less(s, t) ELSE Less(t, s)

\* list(S)[0]
FirstOf(S) == CHOOSE s \in S : \A t \in S \ {s} : Before(s, t)

-----------------------------------------------------------------------------
(* The state qualname reads and writes *)

\* patched: inspect.getsourcefile is replaced by a function that fails when
\* it is called, as _test_cache does for its second run.  The replacement
\* here raises an exception other than TypeError, which line 95 does not
\* catch, so that a call reaching line 94 cannot return a value
Prog(p) == [qattr |-> qattr, cache |-> cache, cacheCode |-> cacheCode,
            file_cache |-> file_cache, patched |-> p]

\* outcomes of a call
Return(P, val, via, src) ==
    [kind |-> "return", val |-> val, exc |-> "", via |-> via, src |-> src,
     P |-> P]

Raise(P, exc, via, src) ==
    [kind |-> "raise", val |-> <<>>, exc |-> exc, via |-> via, src |-> src,
     P |-> P]

\* _fallback_to_name: a class is recorded in _cache; otherwise the name is
\* set as the attribute, and recorded in _cache when the object refuses
\* (only functions defined in Python accept the attribute)
_fallback_to_name(P, obj) ==
    IF IsClass(obj)
    THEN Return([P EXCEPT !.cache = Store(P.cache, obj, name[obj])],
                name[obj], "fallback", TRUE)
    ELSE IF IsFunction(obj)
    THEN Return([P EXCEPT !.qattr = Store(P.qattr, obj, name[obj])],
                name[obj], "fallback", TRUE)
    ELSE Return([P EXCEPT !.cache = Store(P.cache, obj, name[obj])],
                name[obj], "fallback", TRUE)

RECURSIVE Walk(_, _, _)
\* lines 118-128: follow the attributes of a qualname from the module; None
\* stands for the break
Walk(val, attrs, i) ==
    IF i > Len(attrs) THEN val
    ELSE LET v == GetAttr(val, attrs[i])
         IN  IF /\ IsClass(v)
                /\ v \in DOMAIN name
                /\ name[v] = attrs[i]
                /\ InModule(v)
             THEN Walk(v, attrs, i + 1)
             ELSE NoneObj

\* all (short name, qualname) pairs of visitor.class_qualnames
QnamePairs(v) ==
    UNION {{<<k, q>> : q \in v.class_qualnames[k]} :
              k \in DOMAIN v.class_qualnames}

RECURSIVE PreAssign(_, _, _)
\* lines 113-131: every class reached through its qualname from the module
\* is put in _cache and its qualname removed from the candidates
PreAssign(P, v, todo) ==
    IF todo = {} THEN [P EXCEPT !.file_cache = <<v>>]
    ELSE LET q   == FirstOf({p[2] : p \in todo})
             k   == (CHOOSE p \in todo : p[2] = q)[1]
             val == Walk(ModuleObj, Split(q), 1)
         IN  IF val # NoneObj
             THEN PreAssign(
                    [P EXCEPT !.cache = Store(P.cache, val, q)],
                    [v EXCEPT !.class_qualnames =
                        Store(v.class_qualnames, k,
                              v.class_qualnames[k] \ {q})],
                    todo \ {<<k, q>>})
             ELSE PreAssign(P, v, todo \ {<<k, q>>})

\* lines 102-131: the visitor of the file, parsed on the first call
ParseFile(P) ==
    IF P.file_cache # <<>> THEN P
    ELSE LET v == VisitModule(source)
         IN  PreAssign(P, v, QnamePairs(v))

-----------------------------------------------------------------------------
(* qualname *)

RECURSIVE qualname(_, _)

RECURSIVE CountMethods(_, _, _, _, _)
\* lines 154-162: the owner prefixes of the functions in obj.__dict__
CountMethods(P, obj, results, i, counts) ==
    IF i > Len(dict[obj])
    THEN [kind |-> "done", exc |-> "", P |-> P, counts |-> counts]
    ELSE LET method == dict[obj][i][2]
         IN  IF ~IsFunction(method)
             THEN CountMethods(P, obj, results, i + 1, counts)
             ELSE LET r == qualname(P, method)
                      owner == DropLast(r.val, Len(name[method]) + 1)
                  IN  IF r.kind = "raise"
                      THEN [kind |-> "raise", exc |-> r.exc, P |-> r.P,
                            counts |-> counts]
                      ELSE CountMethods(r.P, obj, results, i + 1,
                             IF owner \in results
                             THEN Store(counts, owner,
                                    (IF owner \in DOMAIN counts
                                     THEN counts[owner] ELSE 0) + 1)
                             ELSE counts)

\* max(counts.items(), key=lambda item: item[1])[0]
MaxKey(counts) ==
    FirstOf({k \in DOMAIN counts :
                \A k2 \in DOMAIN counts : counts[k2] <= counts[k]})

\* lines 169-173: a class result without '.<locals>.' is cached; the
\* assertion; the return
Finish(P, obj, result, via) ==
    LET P1 == IF ~Contains(result, DotLocalsDot)
              THEN [P EXCEPT !.cache = Store(P.cache, obj, result)]
              ELSE P
    IN  IF EndsWith(result, name[obj])
        THEN Return(P1, result, via, TRUE)
        ELSE Raise(P1, "AssertionError", via, TRUE)

\* lines 141-167: a class that the pre-assignment pass did not reach
ResolveClass(P, obj) ==
    LET v       == P.file_cache[1]
        results == Lookup(v.class_qualnames, name[obj])
        P1      == [P EXCEPT !.file_cache =
                      <<[v EXCEPT !.class_qualnames =
                            Store(v.class_qualnames, name[obj], results)]>>]
        c       == CountMethods(P1, obj, results, 1, <<>>)
    IN  IF results = {} THEN _fallback_to_name(P1, obj)
        ELSE IF Cardinality(results) = 1
        THEN Finish(P1, obj, FirstOf(results), "single")
        ELSE IF c.kind = "raise" THEN Raise(c.P, c.exc, "vote", TRUE)
        ELSE IF DOMAIN c.counts # {}
        THEN Finish(c.P, obj, MaxKey(c.counts), "vote")
        ELSE Finish(c.P, obj, FirstOf(results), "guess")

\* ResolveFunction without the _cache[code] entry
ResolveFunction_NoCodeCache(P, obj, code) ==
    LET v      == P.file_cache[1]
        result == v.function_qualnames[code]
        P1     == [P EXCEPT !.qattr = Store(P.qattr, obj, result)]
    IN  IF code \notin DOMAIN v.function_qualnames
        THEN Raise(P, "KeyError", "parse", TRUE)
        ELSE IF EndsWith(result, name[obj])
        THEN Return(P1, result, "parse", TRUE)
        ELSE Raise(P1, "AssertionError", "parse", TRUE)

\* lines 138-139 and 172-173: a function, by the first line of its code
ResolveFunction(P, obj, code) ==
    LET v      == P.file_cache[1]
        result == v.function_qualnames[code]
        P1     == [P EXCEPT !.cacheCode = Store(P.cacheCode, code, result),
                            !.qattr = Store(P.qattr, obj, result)]
    IN  IF code \notin DOMAIN v.function_qualnames
        THEN Raise(P, "KeyError", "parse", TRUE)
        ELSE IF EndsWith(result, name[obj])
        THEN Return(P1, result, "parse", TRUE)
        ELSE Raise(P1, "AssertionError", "parse", TRUE)

\* lines 93-173: inspect.getsourcefile and everything after it.  The
\* replaced getsourcefile raises an exception that line 95 does not catch;
\* for a builtin getsourcefile raises TypeError; for a module without
\* source file it returns None, and open(None) raises TypeError outside
\* the try
FromSource(P, obj, code) ==
    LET first == P.file_cache = <<>>
        P1    == ParseFile(P)
    IN  IF P.patched THEN Raise(P, "Exception", "getsourcefile", TRUE)
        ELSE IF obj \in {IntObj, LenObj} THEN _fallback_to_name(P, obj)
        ELSE IF srcfile = "none" THEN Raise(P, "TypeError", "open", TRUE)
        ELSE IF first /\ obj \in DOMAIN P1.cache
        THEN IF EndsWith(P1.cache[obj], name[obj])
             THEN Return(P1, P1.cache[obj], "preassign", TRUE)
             ELSE Raise(P1, "AssertionError", "preassign", TRUE)
        ELSE IF code # 0 THEN ResolveFunction(P1, obj, code)
        ELSE ResolveClass(P1, obj)

\* lines 59-88
qualname(P, obj) ==
    IF obj \in DOMAIN P.qattr THEN Return(P, P.qattr[obj], "attr", FALSE)
    ELSE IF obj \in DOMAIN P.cache
    THEN Return(P, P.cache[obj], "cache", FALSE)
    ELSE IF IsFunction(obj)
    THEN IF CodeOf(obj) \in DOMAIN P.cacheCode
         THEN Return(P, P.cacheCode[CodeOf(obj)], "code", FALSE)
         ELSE FromSource(P, obj, CodeOf(obj))
    ELSE IF ~(IsClass(obj) \/ IsRoutine(obj))
    THEN Raise(P, "AttributeError", "attr", FALSE)
    ELSE FromSource(P, obj, 0)

-----------------------------------------------------------------------------
(* The program and its callers *)

\* names given by type(name, ...) and by functools.wraps
TypeNames == {<<"N">>, <<"B">>}
RenameNames == {<<"z">>}

Live == DOMAIN name

Init ==
    /\ source \in Files
    /\ srcfile \in {"file", "none"}
    /\ hashSeed \in {0, 1}
    /\ loaded = 0
    /\ gens = 0
    /\ name = <<>>
    /\ dict = <<>>
    /\ module = <<>>
    /\ qattr = <<>>
    /\ cache = <<>>
    /\ cacheCode = <<>>
    /\ file_cache = <<>>
    /\ steps = 0

\* the import executes the next statement of the module body
LoadNext ==
    LET c == NextChild(source, 0, loaded)
        W == ExecStmt(World, source, c, 0)
    IN  /\ c # 0
        /\ loaded' = c
        /\ name' = W.name /\ dict' = W.dict /\ module' = W.module
        /\ UNCHANGED <<source, srcfile, hashSeed, gens, qattr, cache,
                       cacheCode, file_cache, steps>>

\* a caller runs a function that has local definitions: each gets a new
\* object
CallFunction(f) ==
    LET W == ExecBody(World, source, f[1], gens + 1, 0)
    IN  /\ IsFunction(f) /\ source[f[1]].kind = "def"
        /\ ChildSet(source, f[1]) # {}
        /\ steps < MaxSteps
        /\ steps' = steps + 1
        /\ gens' = gens + 1
        /\ name' = W.name /\ dict' = W.dict /\ module' = W.module
        /\ UNCHANGED <<source, srcfile, hashSeed, loaded, qattr, cache,
                       cacheCode, file_cache>>

\* the functions in the __dict__ of class c
Methods(c) ==
    {o \in {dict[c][i][2] : i \in 1..Len(dict[c])} : IsFunction(o)}

\* c.f = c2.f: a method of one class is assigned as an attribute of another
\* class of the same short name made by the same call
AssignMethod(c, c2, f) ==
    /\ c # c2 /\ c[2] = c2[2] /\ name[c] = name[c2]
    /\ IsDefined(c) /\ IsDefined(c2)
    /\ f \in Methods(c2) /\ f \notin Methods(c)
    /\ steps < MaxSteps
    /\ steps' = steps + 1
    /\ dict' = [dict EXCEPT ![c] = Bind(dict[c], source[f[1]].name, f)]
    /\ UNCHANGED <<source, srcfile, hashSeed, loaded, gens, name, module,
                   qattr, cache, cacheCode, file_cache>>

\* functools.wraps: a function object is given another function's name
Rename(f, n) ==
    /\ IsFunction(f)
    /\ name[f] # n
    /\ steps < MaxSteps
    /\ steps' = steps + 1
    /\ name' = [name EXCEPT ![f] = n]
    /\ UNCHANGED <<source, srcfile, hashSeed, loaded, gens, dict, module,
                   qattr, cache, cacheCode, file_cache>>

\* the objects that no definition of the file creates, and their __name__
\* (the plain object has none)
Foreign ==
    {<<IntObj, <<"i", "n", "t">> >>, <<LenObj, <<"l", "e", "n">> >>,
     <<PlainObj, <<>> >>} \cup {<<TypeObj(1), n>> : n \in TypeNames}

\* a caller gets hold of a builtin or of a plain object, or makes a class
\* with type(n, (object,), {})
Obtain(o, n) ==
    /\ <<o, n>> \in Foreign
    /\ \A x \in DOMAIN name : IsDefined(x)
    /\ steps < MaxSteps
    /\ steps' = steps + 1
    /\ name' = Store(name, o, n)
    /\ dict' = IF o = TypeObj(1) THEN Store(dict, o, <<>>) ELSE dict
    /\ UNCHANGED <<source, srcfile, hashSeed, loaded, gens, module,
                   qattr, cache, cacheCode, file_cache>>

\* a caller calls qualname(obj), with inspect.getsourcefile as it is
\* (p = FALSE) or replaced for this call by a function that raises
CallQualname(obj, p) ==
    LET r == qualname(Prog(p), obj)
    IN  /\ qattr' = r.P.qattr
        /\ cache' = r.P.cache
        /\ cacheCode' = r.P.cacheCode
        /\ file_cache' = r.P.file_cache
        /\ UNCHANGED <<source, srcfile, hashSeed, loaded, gens, name, dict,
                       module, steps>>

Next ==
    \/ LoadNext
    \/ \E f \in DOMAIN name : CallFunction(f)
    \/ \E c \in DOMAIN dict, c2 \in DOMAIN dict, f \in DOMAIN name :
          AssignMethod(c, c2, f)
    \/ \E f \in DOMAIN name, n \in RenameNames : Rename(f, n)
    \/ \E x \in Foreign : Obtain(x[1], x[2])
    \/ \E obj \in Live, p \in BOOLEAN : CallQualname(obj, p)

Spec == Init /\ [][Next]_vars

-----------------------------------------------------------------------------
(* The source files of the second specification: every file of at most     *)
(* MaxDefs class and function definitions with names from TreeNames.       *)

MaxDefs == 3

TreeNames == {<<"C">>, <<"f">>}

RECURSIVE Ancestors(_, _)
\* the lines enclosing line l, and 0 for the module
Ancestors(src, l) ==
    IF l = 0 THEN {0} ELSE {src[l].parent} \cup Ancestors(src, src[l].parent)

\* a line lies directly inside the previous line or inside one of the lines
\* enclosing the previous line
WellNested(src) ==
    \A l \in Lines(src) :
        /\ src[l].parent < l
        /\ l > 1 => src[l].parent \in {l - 1} \cup Ancestors(src, l - 1)

Trees ==
    UNION {{t \in [1..n -> [kind : {"class", "def"}, name : TreeNames,
                            parent : 0..(n - 1), base : {0}]] :
               WellNested(t)} : n \in 1..MaxDefs}

TreeInit ==
    /\ source \in Trees
    /\ srcfile = "file"
    /\ hashSeed = 0
    /\ loaded = 0
    /\ gens = 0
    /\ name = <<>>
    /\ dict = <<>>
    /\ module = <<>>
    /\ qattr = <<>>
    /\ cache = <<>>
    /\ cacheCode = <<>>
    /\ file_cache = <<>>
    /\ steps = 0

TreeNext ==
    \/ LoadNext
    \/ \E f \in DOMAIN name : CallFunction(f)
    \/ \E obj \in Live, p \in BOOLEAN : CallQualname(obj, p)

TreeSpec == TreeInit /\ [][TreeNext]_vars

-----------------------------------------------------------------------------
(* What the claims speak of *)

RECURSIVE LexQual(_, _)
\* the lexical qualified name of the definition at line l: the qualified
\* name of the enclosing definition, '.<locals>' after it when it is a
\* function, '.', and the definition's own name
LexQual(src, l) ==
    LET n == src[l].parent
    IN  IF n = 0 THEN src[l].name
        ELSE LexQual(src, n)
               \o (IF src[n].kind = "def" THEN <<".">> \o LOCALS ELSE <<>>)
               \o <<".">> \o src[l].name

DefLines(src) == {l \in Lines(src) : src[l].kind = "def"}
ClassLines(src) == {l \in Lines(src) : src[l].kind = "class"}

\* the live objects made by a class definition / a function definition
LiveClasses == {o \in Live : IsDefined(o) /\ source[o[1]].kind = "class"}
LiveDefs == {o \in Live : IsDefined(o) /\ source[o[1]].kind = "def"}

Parsed == file_cache # <<>>

\* C1: once the file is parsed, the visitor's stack is empty, its function
\* qualnames are exactly the lexical qualified names of the function
\* definitions, every class definition's lexical qualified name is among
\* the candidates of its short name or has been moved to _cache by the
\* pre-assignment pass, no candidate is anything else, and a qualname call
\* on a function returns nothing but the lexical qualified name of its
\* definition.
C1_LexicalQualnames ==
    /\ Parsed =>
         LET v == file_cache[1]
         IN  /\ v.stack = <<>>
             /\ DOMAIN v.function_qualnames = DefLines(source)
             /\ \A l \in DefLines(source) :
                   v.function_qualnames[l] = LexQual(source, l)
             /\ \A l \in ClassLines(source) :
                   LexQual(source, l) \in
                      Lookup(v.class_qualnames, source[l].name)
                        \cup {cache[o] : o \in DOMAIN cache}
             /\ \A k \in DOMAIN v.class_qualnames :
                   v.class_qualnames[k] \subseteq
                      {LexQual(source, l) :
                          l \in {x \in ClassLines(source) :
                                    source[x].name = k}}
    /\ \A o \in LiveDefs, p \in BOOLEAN :
          LET r == qualname(Prog(p), o)
          IN  r.kind = "return" => r.val = LexQual(source, o[1])

\* C1 witness: a function nested in a function nested in a class has been
\* resolved from the parsed file
C1_Witness ==
    /\ Parsed
    /\ \E o \in LiveDefs :
          /\ o \in DOMAIN qattr
          /\ source[o[1]].parent # 0
          /\ source[source[o[1]].parent].kind = "def"
          /\ source[source[o[1]].parent].parent # 0
          /\ source[source[source[o[1]].parent].parent].kind = "class"

-----------------------------------------------------------------------------

RECURSIVE ReachableObj(_)
\* a class object that is bound under its own name in the module, or in the
\* __dict__ of a class that is itself so reachable
ReachableObj(o) ==
    /\ o \in LiveClasses
    /\ LET n == source[o[1]].parent
       IN  IF n = 0 THEN Get(module, name[o]) = o
           ELSE /\ source[n].kind = "class"
                /\ <<n, o[2]>> \in DOMAIN dict
                /\ Get(dict[<<n, o[2]>>], name[o]) = o
                /\ ReachableObj(<<n, o[2]>>)

\* the objects C2 speaks of
C2Objects ==
    {o \in Live : \/ ReachableObj(o)
                  \/ IsFunction(o)
                  \/ o \in {IntObj, LenObj, TypeObj(1)}}

\* C2: when a qualname call on a reachable class, a function, a builtin or
\* a directly constructed type returns a value, the next call on the same
\* object returns the same value without reaching inspect.getsourcefile,
\* also when getsourcefile is replaced by a function that raises.
C2_CachedAfterReturn ==
    \A o \in C2Objects, p \in BOOLEAN :
        LET r  == qualname(Prog(p), o)
            r2 == qualname([r.P EXCEPT !.patched = TRUE], o)
        IN  r.kind = "return" =>
               /\ r2.kind = "return"
               /\ r2.val = r.val
               /\ ~r2.src

\* the objects C3 speaks of: a class or routine of a module without source
\* file, a builtin, a function made by a lambda, a class made by type()
\* under a name that no class definition of the file has
C3Objects ==
    {o \in Live :
        /\ IsClass(o) \/ IsRoutine(o)
        /\ \/ srcfile = "none"
           \/ o \in {IntObj, LenObj}
           \/ IsDefined(o) /\ source[o[1]].kind = "lambda"
           \/ /\ o = TypeObj(1)
              /\ \A l \in ClassLines(source) : source[l].name # name[o]}

\* the name is recorded on the object
Recorded(P, o) ==
    IF IsFunction(o)
    THEN o \in DOMAIN P.qattr /\ P.qattr[o] = name[o]
    ELSE o \in DOMAIN P.cache /\ P.cache[o] = name[o]

\* C3: a qualname call on an object whose qualified name cannot be
\* recovered from source does not raise; it returns obj.__name__, and the
\* name is recorded on the __qualname__ attribute or in _cache.
C3_FallbackToName ==
    \A o \in C3Objects :
        LET r == qualname(Prog(FALSE), o)
        IN  /\ r.kind = "return"
            /\ r.val = name[o]
            /\ Recorded(r.P, o)

-----------------------------------------------------------------------------

\* a class defined inside a function, directly or through enclosing classes
LocalClass(o) ==
    /\ o \in LiveClasses
    /\ \E a \in Ancestors(source, o[1]) \ {0} : source[a].kind = "def"

\* every other class definition of the same short name is reachable
OnlyUnreachable(o) ==
    /\ o \in LiveClasses
    /\ ~ReachableObj(o)
    /\ \A l \in ClassLines(source) \ {o[1]} :
          source[l].name = source[o[1]].name => ReachableObj(<<l, 0>>)

\* C4: a qualname call on a class that is reachable from the module, or
\* that is the only class of its short name that is not, returns the
\* lexical qualified name of the class's definition.
C4_ReachableOrOnlyLocal ==
    srcfile = "file" =>
       \A o \in LiveClasses :
           ReachableObj(o) \/ OnlyUnreachable(o) =>
              LET r == qualname(Prog(FALSE), o)
              IN  r.kind = "return" /\ r.val = LexQual(source, o[1])

\* the candidates that remain for the short name of class o when qualname
\* reaches line 141
Remaining(o) ==
    Lookup(ParseFile(Prog(FALSE)).file_cache[1].class_qualnames, name[o])

\* o is not answered from _cache, before or after the pre-assignment pass
Undecided(o) ==
    /\ IsClass(o) /\ o \in DOMAIN dict
    /\ o \notin DOMAIN ParseFile(Prog(FALSE)).cache

\* the number of functions in the class's own __dict__ that were defined
\* in the class whose qualified name is q
OwnerCount(o, q) ==
    Cardinality({f \in Methods(o) :
                    /\ source[f[1]].kind = "def"
                    /\ source[f[1]].parent # 0
                    /\ source[source[f[1]].parent].kind = "class"
                    /\ LexQual(source, source[f[1]].parent) = q})

\* C5: with several candidates remaining and a method of one of them in
\* the class's own __dict__, qualname returns a candidate that owns the
\* largest number of the class's own functions; it is the class's lexical
\* qualified name when that owns strictly more than any other candidate.
C5_MethodVote ==
    srcfile = "file" =>
       \A o \in Live :
           /\ Undecided(o)
           /\ Cardinality(Remaining(o)) > 1
           /\ \E q \in Remaining(o) : OwnerCount(o, q) > 0
           => LET r == qualname(Prog(FALSE), o)
              IN  /\ r.kind = "return"
                  /\ r.val \in Remaining(o)
                  /\ \A q \in Remaining(o) :
                        OwnerCount(o, q) <= OwnerCount(o, r.val)
                  /\ (/\ IsDefined(o)
                      /\ \A q \in Remaining(o) \ {LexQual(source, o[1])} :
                            OwnerCount(o, q) <
                               OwnerCount(o, LexQual(source, o[1])))
                     => r.val = LexQual(source, o[1])

\* C6: with several candidates remaining and no method of a candidate in
\* the class's own __dict__, qualname returns one of the candidates and
\* does not raise.
C6_GuessWithoutMethods ==
    srcfile = "file" =>
       \A o \in Live :
           /\ Undecided(o)
           /\ Cardinality(Remaining(o)) > 1
           /\ \A q \in Remaining(o) : OwnerCount(o, q) = 0
           => LET r == qualname(Prog(FALSE), o)
              IN  r.kind = "return" /\ r.val \in Remaining(o)

\* C7: no _cache entry keyed by a class has a value containing
\* '.<locals>.', and no function-local class is a key of _cache, so that a
\* call on it is not answered from _cache.
C7_LocalClassesNotCached ==
    /\ \A o \in DOMAIN cache :
          IsClass(o) => ~Contains(cache[o], DotLocalsDot)
    /\ \A o \in LiveClasses :
          LocalClass(o) =>
             /\ o \notin DOMAIN cache
             /\ \A p \in BOOLEAN : qualname(Prog(p), o).via # "cache"

\* two function objects of one code object, the first resolved from the
\* parsed file, the second without attribute and not a key of _cache
SharedCode(o1, o2) ==
    /\ IsFunction(o1) /\ IsFunction(o2)
    /\ o1 # o2 /\ CodeOf(o1) = CodeOf(o2)
    /\ o1 \in DOMAIN qattr
    /\ o2 \notin DOMAIN qattr /\ o2 \notin DOMAIN cache

\* C8: once one function object has been resolved from the parsed file, a
\* qualname call on another function object of the same code object
\* returns the same qualified name from _cache[code] without reaching
\* inspect.getsourcefile.
C8_CachedByCode ==
    \A o1 \in Live, o2 \in Live, p \in BOOLEAN :
        SharedCode(o1, o2) =>
           LET r == qualname(Prog(p), o2)
           IN  /\ r.kind = "return"
               /\ r.val = qattr[o1]
               /\ r.val = LexQual(source, o2[1])
               /\ r.via = "code"
               /\ ~r.src

\* C8 witness: a local function was resolved and its enclosing function
\* has run again
C8_Witness ==
    \E o1 \in Live, o2 \in Live :
        SharedCode(o1, o2) /\ qualname(Prog(TRUE), o2).kind = "return"

\* C9: no qualname call on a class or function raises AssertionError.
C9_AssertionsHold ==
    \A o \in Live, p \in BOOLEAN :
        IsClass(o) \/ IsFunction(o) =>
           qualname(Prog(p), o).exc # "AssertionError"

\* a process in which qualname has not been called
Fresh == [qattr |-> <<>>, cache |-> <<>>, cacheCode |-> <<>>,
          file_cache |-> <<>>, patched |-> FALSE]

\* C10: the value a qualname call returns for an object is the value the
\* call returns when it is the first call of the process.
C10_HistoryIndependent ==
    \A o \in Live :
        IsClass(o) \/ IsFunction(o) =>
           LET r  == qualname(Prog(FALSE), o)
               rf == qualname(Fresh, o)
           IN  r.kind = "return" /\ rf.kind = "return" => r.val = rf.val

====
